---- MODULE Spec2Model ----
(***************************************************************************)
(* Zero-hash sparse Merkle tree (ZeroMerkleTree over NodeStore), the       *)
(* append-only Merkle tree (AppendOnlyMerkleTree) and the proof verifiers  *)
(* (computeMerkleRootFromProof, verifyMerkleProof, verifyDeltaMerkleProof).*)
(*                                                                         *)
(* A node value (MerkleNodeValue, a 64 digit hex string in the source) is  *)
(* a term: the digest that encodes the integer n is <<n>>, and the digest  *)
(* hash(l, r) is the pair <<l, r>>.  Two terms are equal exactly when they *)
(* were built the same way, which is the collision-free reading of SHA-256.*)
(***************************************************************************)
EXTENDS Integers, Sequences, FiniteSets, TLC

\* ---------------------------------------------------------------- bounds
MaxHeight == 2
MaxValue == 1
MaxCalls == 3
MaxAppends == 5
OutOfRange == 1

\* ---------------------------------------------------------------- state
VARIABLES
  height,           \* the height both trees were constructed with
  storeZeroHashes,  \* NodeStore.zeroHashes
  nodes,            \* NodeStore.nodes: <<level, index>> -> node value
  zcalls,           \* the arguments <<index, value>> of the setLeaf calls so far, in call order
  zproofs,          \* delta proofs returned by setLeaf so far, in call order
  zeroHashes,       \* AppendOnlyMerkleTree.zeroHashes
  lastProof,        \* AppendOnlyMerkleTree.lastProof
  aproofs,          \* delta proofs returned by appendLeaf so far, in call order
  verified,         \* the last verifier call: its kind, its argument, its result
  arrays,           \* the array objects AppendOnlyMerkleTree created: reference -> current contents
  lastSiblings,     \* the reference held in AppendOnlyMerkleTree.lastProof.siblings
  zarrays,          \* the array objects setLeaf created: reference -> current contents
  zproofSiblings,   \* the siblings reference held in each proof setLeaf returned
  aproofSiblings    \* the siblings reference held in each proof appendLeaf returned

vars == <<height, storeZeroHashes, nodes, zcalls, zproofs, zeroHashes, lastProof, aproofs, verified,
          arrays, lastSiblings, zarrays, zproofSiblings, aproofSiblings>>
zeroVars == <<storeZeroHashes, nodes, zcalls, zproofs>>
appendVars == <<zeroHashes, lastProof, aproofs>>
heapVars == <<arrays, lastSiblings, zarrays, zproofSiblings, aproofSiblings>>

\* ---------------------------------------------------------------- node values
\* the digest whose hex text encodes the integer n
Digest(n) == <<n>>

\* "0000000000000000000000000000000000000000000000000000000000000000"
ZeroDigest == Digest(0)

\* the leaf values the callers pass in
Values == {Digest(n) : n \in 0..MaxValue}

hash(leftNode, rightNode) == <<leftNode, rightNode>>

\* computeZeroHashes that pairs each level with the leaf-level zero hash
\* instead of with itself
RECURSIVE computeZeroHashes_pairsWithLeaf(_)
computeZeroHashes_pairsWithLeaf(h) ==
  IF h = 0 THEN <<ZeroDigest>>
  ELSE LET prev == computeZeroHashes_pairsWithLeaf(h - 1)
       IN  Append(prev, hash(prev[1], prev[h]))

RECURSIVE computeZeroHashes(_)
computeZeroHashes(h) ==
  IF h = 0 THEN <<ZeroDigest>>
  ELSE LET prev == computeZeroHashes(h - 1)
       IN  Append(prev, hash(prev[h], prev[h]))

\* ---------------------------------------------------------------- NodeStore
\* the key level+"_"+index
Key(level, index) == <<level, index>>

contains(store, level, index) == Key(level, index) \in DOMAIN store

\* set that keeps one node per level: the entry it writes evicts the level's others
set_onePerLevel(store, level, index, value) ==
  [k \in {q \in DOMAIN store : q[1] # level} \cup {Key(level, index)} |->
     IF k = Key(level, index) THEN value ELSE store[k]]

set(store, level, index, value) ==
  [k \in DOMAIN store \cup {Key(level, index)} |->
     IF k = Key(level, index) THEN value ELSE store[k]]

\* get that never looks at the stored nodes: every node reads as its level's zero hash
get_zeroHashOnly(store, level, index) ==
  storeZeroHashes[(height - level) + 1]

\* zeroHashes is a JavaScript array (index 0 first), a TLA+ sequence starts at 1
get(store, level, index) ==
  IF contains(store, level, index)
  THEN store[Key(level, index)]
  ELSE storeZeroHashes[(height - level) + 1]

\* ---------------------------------------------------------------- ZeroMerkleTree
\* setLeafLoop that also stores each sibling it reads
RECURSIVE setLeafLoop_storesSiblings(_, _, _, _, _)
setLeafLoop_storesSiblings(store, level, currentIndex, currentValue, siblings) ==
  IF level > 0
  THEN LET written == set(store, level, currentIndex, currentValue)
       IN  IF currentIndex % 2 = 0
           THEN LET rightSibling == get(written, level, currentIndex + 1)
                IN  setLeafLoop_storesSiblings(set(written, level, currentIndex + 1, rightSibling),
                                               level - 1, currentIndex \div 2,
                                               hash(currentValue, rightSibling),
                                               Append(siblings, rightSibling))
           ELSE LET leftSibling == get(written, level, currentIndex - 1)
                IN  setLeafLoop_storesSiblings(set(written, level, currentIndex - 1, leftSibling),
                                               level - 1, currentIndex \div 2,
                                               hash(leftSibling, currentValue),
                                               Append(siblings, leftSibling))
  ELSE [store |-> store, currentValue |-> currentValue, siblings |-> siblings]

\* setLeafLoop with the arguments of hash swapped for a left-hand path node
RECURSIVE setLeafLoop_swapsEven(_, _, _, _, _)
setLeafLoop_swapsEven(store, level, currentIndex, currentValue, siblings) ==
  IF level > 0
  THEN LET written == set(store, level, currentIndex, currentValue)
       IN  IF currentIndex % 2 = 0
           THEN LET rightSibling == get(written, level, currentIndex + 1)
                IN  setLeafLoop_swapsEven(written, level - 1, currentIndex \div 2,
                                          hash(rightSibling, currentValue),
                                          Append(siblings, rightSibling))
           ELSE LET leftSibling == get(written, level, currentIndex - 1)
                IN  setLeafLoop_swapsEven(written, level - 1, currentIndex \div 2,
                                          hash(leftSibling, currentValue),
                                          Append(siblings, leftSibling))
  ELSE [store |-> store, currentValue |-> currentValue, siblings |-> siblings]

\* setLeafLoop with the odd branch lost: every path node is taken for a left child
RECURSIVE setLeafLoop_alwaysRight(_, _, _, _, _)
setLeafLoop_alwaysRight(store, level, currentIndex, currentValue, siblings) ==
  IF level > 0
  THEN LET written == set(store, level, currentIndex, currentValue)
           rightSibling == get(written, level, currentIndex + 1)
       IN  setLeafLoop_alwaysRight(written, level - 1, currentIndex \div 2,
                                   hash(currentValue, rightSibling),
                                   Append(siblings, rightSibling))
  ELSE [store |-> store, currentValue |-> currentValue, siblings |-> siblings]

\* the loop of setLeaf, from the leaf level down to level 1
RECURSIVE setLeafLoop(_, _, _, _, _)
setLeafLoop(store, level, currentIndex, currentValue, siblings) ==
  IF level > 0
  THEN LET written == set(store, level, currentIndex, currentValue)
       IN  IF currentIndex % 2 = 0
           THEN LET rightSibling == get(written, level, currentIndex + 1)
                IN  setLeafLoop(written, level - 1, currentIndex \div 2,
                                hash(currentValue, rightSibling),
                                Append(siblings, rightSibling))
           ELSE LET leftSibling == get(written, level, currentIndex - 1)
                IN  setLeafLoop(written, level - 1, currentIndex \div 2,
                                hash(leftSibling, currentValue),
                                Append(siblings, leftSibling))
  ELSE [store |-> store, currentValue |-> currentValue, siblings |-> siblings]

\* setLeaf that reads oldValue after the leaf was written
setLeaf_oldValueAfterWrite(store, index, value) ==
  LET oldRoot == get(store, 0, 0)
      walk == setLeafLoop(store, height, index, value, <<>>)
      written == set(walk.store, 0, 0, walk.currentValue)
      oldValue == get(written, height, index)
  IN  [store |-> written,
       proof |-> [index |-> index,
                  siblings |-> walk.siblings,
                  oldRoot |-> oldRoot,
                  oldValue |-> oldValue,
                  newValue |-> value,
                  newRoot |-> walk.currentValue]]

\* setLeaf without the final write of the root node (0, 0)
setLeaf_rootNotStored(store, index, value) ==
  LET oldRoot == get(store, 0, 0)
      oldValue == get(store, height, index)
      walk == setLeafLoop(store, height, index, value, <<>>)
  IN  [store |-> walk.store,
       proof |-> [index |-> index,
                  siblings |-> walk.siblings,
                  oldRoot |-> oldRoot,
                  oldValue |-> oldValue,
                  newValue |-> value,
                  newRoot |-> walk.currentValue]]

\* setLeaf: the store it leaves and the delta proof it returns
setLeaf(store, index, value) ==
  LET oldRoot == get(store, 0, 0)
      oldValue == get(store, height, index)
      walk == setLeafLoop(store, height, index, value, <<>>)
  IN  [store |-> set(walk.store, 0, 0, walk.currentValue),
       proof |-> [index |-> index,
                  siblings |-> walk.siblings,
                  oldRoot |-> oldRoot,
                  oldValue |-> oldValue,
                  newValue |-> value,
                  newRoot |-> walk.currentValue]]

getRoot(store) == get(store, 0, 0)

\* ---------------------------------------------------------------- proof verification
\* the fold with the side rule lost: the path node is always the left argument
RECURSIVE computeMerkleRootFromProofLoop_ignoresSide(_, _, _, _)
computeMerkleRootFromProofLoop_ignoresSide(siblings, i, merklePathNodeIndex, merklePathNodeValue) ==
  IF i <= Len(siblings)
  THEN LET merklePathNodeSibling == siblings[i]
       IN  computeMerkleRootFromProofLoop_ignoresSide(siblings, i + 1, merklePathNodeIndex \div 2,
             hash(merklePathNodeValue, merklePathNodeSibling))
  ELSE merklePathNodeValue

RECURSIVE computeMerkleRootFromProofLoop(_, _, _, _)
computeMerkleRootFromProofLoop(siblings, i, merklePathNodeIndex, merklePathNodeValue) ==
  IF i <= Len(siblings)
  THEN LET merklePathNodeSibling == siblings[i]
       IN  computeMerkleRootFromProofLoop(siblings, i + 1, merklePathNodeIndex \div 2,
             IF merklePathNodeIndex % 2 = 0
             THEN hash(merklePathNodeValue, merklePathNodeSibling)
             ELSE hash(merklePathNodeSibling, merklePathNodeValue))
  ELSE merklePathNodeValue

computeMerkleRootFromProof(siblings, index, value) ==
  computeMerkleRootFromProofLoop(siblings, 1, index, value)

verifyMerkleProof(proof) ==
  proof.root = computeMerkleRootFromProof(proof.siblings, proof.index, proof.value)

verifyDeltaMerkleProof(deltaMerkleProof) ==
  LET oldProof == [siblings |-> deltaMerkleProof.siblings,
                   index |-> deltaMerkleProof.index,
                   root |-> deltaMerkleProof.oldRoot,
                   value |-> deltaMerkleProof.oldValue]
      newProof == [siblings |-> deltaMerkleProof.siblings,
                   index |-> deltaMerkleProof.index,
                   root |-> deltaMerkleProof.newRoot,
                   value |-> deltaMerkleProof.newValue]
  IN  verifyMerkleProof(oldProof) /\ verifyMerkleProof(newProof)

\* ---------------------------------------------------------------- AppendOnlyMerkleTree
RECURSIVE computeMerklePathFromProofLoop(_, _, _, _, _)
computeMerklePathFromProofLoop(siblings, i, merklePathNodeIndex, merklePathNodeValue, merklePath) ==
  IF i <= Len(siblings)
  THEN LET merklePathNodeSibling == siblings[i]
           parent == IF merklePathNodeIndex % 2 = 0
                     THEN hash(merklePathNodeValue, merklePathNodeSibling)
                     ELSE hash(merklePathNodeSibling, merklePathNodeValue)
       IN  computeMerklePathFromProofLoop(siblings, i + 1, merklePathNodeIndex \div 2,
                                          parent, Append(merklePath, parent))
  ELSE merklePath

\* the node values on a leaf's path, the leaf first and the root last
computeMerklePathFromProof(siblings, index, value) ==
  computeMerklePathFromProofLoop(siblings, 1, index, value, <<value>>)

\* appendSibling that takes the old sibling wherever the new path node is a left child
appendSibling_reusesOnLeft(oldSiblings, oldMerklePath, prevIndex, newIndex, level, multiplier) ==
  LET prevLevelIndex == prevIndex \div multiplier
      newLevelIndex == newIndex \div multiplier
  IN  IF newLevelIndex = prevLevelIndex \/ newLevelIndex % 2 = 0
      THEN oldSiblings[level + 1]
      ELSE oldMerklePath[level + 1]

\* appendSibling that never takes the previous path node: a right child's
\* sibling is taken for an empty subtree
appendSibling_neverPath(oldSiblings, oldMerklePath, prevIndex, newIndex, level, multiplier) ==
  LET prevLevelIndex == prevIndex \div multiplier
      newLevelIndex == newIndex \div multiplier
  IN  IF newLevelIndex = prevLevelIndex
      THEN oldSiblings[level + 1]
      ELSE zeroHashes[level + 1]

\* the sibling appendLeaf picks on one level (level 0 is the leaf level here)
appendSibling(oldSiblings, oldMerklePath, prevIndex, newIndex, level, multiplier) ==
  LET prevLevelIndex == prevIndex \div multiplier
      newLevelIndex == newIndex \div multiplier
  IN  IF newLevelIndex = prevLevelIndex
      THEN oldSiblings[level + 1]
      ELSE IF newLevelIndex % 2 = 0
           THEN zeroHashes[level + 1]
           ELSE oldMerklePath[level + 1]

\* the loop of appendLeaf stopping one level early
RECURSIVE appendLeafLoop_stopsEarly(_, _, _, _, _, _, _)
appendLeafLoop_stopsEarly(oldSiblings, oldMerklePath, prevIndex, newIndex, level, multiplier, siblings) ==
  IF level < height - 1
  THEN appendLeafLoop_stopsEarly(oldSiblings, oldMerklePath, prevIndex, newIndex, level + 1, multiplier * 2,
         Append(siblings, appendSibling(oldSiblings, oldMerklePath, prevIndex, newIndex, level, multiplier)))
  ELSE siblings

\* the loop of appendLeaf over the levels 0 .. height-1
RECURSIVE appendLeafLoop(_, _, _, _, _, _, _)
appendLeafLoop(oldSiblings, oldMerklePath, prevIndex, newIndex, level, multiplier, siblings) ==
  IF level < height
  THEN appendLeafLoop(oldSiblings, oldMerklePath, prevIndex, newIndex, level + 1, multiplier * 2,
         Append(siblings, appendSibling(oldSiblings, oldMerklePath, prevIndex, newIndex, level, multiplier)))
  ELSE siblings

\* the siblings array written over the array lastProof.siblings refers to
siblingsArray_inPlace(heap, oldSiblings, contents) ==
  [arrays |-> [heap EXCEPT ![oldSiblings] = contents], ref |-> oldSiblings]

\* "const siblings: MerkleNodeValue[] = []" filled by the loop: a new array
\* object, distinct from the one lastProof.siblings (oldSiblings) refers to
siblingsArray(heap, oldSiblings, contents) ==
  [arrays |-> Append(heap, contents), ref |-> Len(heap) + 1]

\* appendLeaf that returns the index of the leaf before the appended one
appendLeaf_returnsPrevIndex(last, leafValue) ==
  LET oldMerklePath == computeMerklePathFromProof(last.siblings, last.index, last.value)
      oldRoot == last.root
      oldValue == ZeroDigest
      prevIndex == last.index
      newIndex == prevIndex + 1
      oldSiblings == last.siblings
      siblings == appendLeafLoop(oldSiblings, oldMerklePath, prevIndex, newIndex, 0, 1, <<>>)
      newRoot == computeMerkleRootFromProof(siblings, newIndex, leafValue)
      newLast == [root |-> newRoot, siblings |-> siblings, index |-> newIndex, value |-> leafValue]
  IN  [lastProof |-> newLast,
       proof |-> [index |-> prevIndex,
                  siblings |-> siblings,
                  oldRoot |-> oldRoot,
                  oldValue |-> oldValue,
                  newRoot |-> newRoot,
                  newValue |-> leafValue]]

\* appendLeaf that keeps the old root in lastProof
appendLeaf_staleRoot(last, leafValue) ==
  LET oldMerklePath == computeMerklePathFromProof(last.siblings, last.index, last.value)
      oldRoot == last.root
      oldValue == ZeroDigest
      prevIndex == last.index
      newIndex == prevIndex + 1
      oldSiblings == last.siblings
      siblings == appendLeafLoop(oldSiblings, oldMerklePath, prevIndex, newIndex, 0, 1, <<>>)
      newRoot == computeMerkleRootFromProof(siblings, newIndex, leafValue)
      newLast == [root |-> oldRoot, siblings |-> siblings, index |-> newIndex, value |-> leafValue]
  IN  [lastProof |-> newLast,
       proof |-> [index |-> newLast.index,
                  siblings |-> siblings,
                  oldRoot |-> oldRoot,
                  oldValue |-> oldValue,
                  newRoot |-> newRoot,
                  newValue |-> leafValue]]

\* appendLeaf: the lastProof it leaves and the delta proof it returns
appendLeaf(last, leafValue) ==
  LET oldMerklePath == computeMerklePathFromProof(last.siblings, last.index, last.value)
      oldRoot == last.root
      oldValue == ZeroDigest
      prevIndex == last.index
      newIndex == prevIndex + 1
      oldSiblings == last.siblings
      siblings == appendLeafLoop(oldSiblings, oldMerklePath, prevIndex, newIndex, 0, 1, <<>>)
      newRoot == computeMerkleRootFromProof(siblings, newIndex, leafValue)
      newLast == [root |-> newRoot, siblings |-> siblings, index |-> newIndex, value |-> leafValue]
  IN  [lastProof |-> newLast,
       proof |-> [index |-> newLast.index,
                  siblings |-> siblings,
                  oldRoot |-> oldRoot,
                  oldValue |-> oldValue,
                  newRoot |-> newRoot,
                  newValue |-> leafValue]]

\* ---------------------------------------------------------------- callers' inputs
ValidIndex == 0..(2^height - 1)

\* valid indices and the nearest ones outside [0, 2^height)
AnyIndex == (0 - OutOfRange)..(2^height - 1 + OutOfRange)

NoCall == [kind |-> "none", proof |-> <<>>, result |-> FALSE]

Range(f) == {f[k] : k \in DOMAIN f}

\* the node values a proof handed to a verifier is made of: leaf digests and zero hashes
NodeInputs == Values \cup Range(storeZeroHashes)

\* siblings arrays of every length up to the largest height
SiblingInputs == UNION {[1..n -> NodeInputs] : n \in 0..MaxHeight}

\* the node values stored on one level of the sparse tree, and that level's zero hash
LevelNodes(level) ==
  {nodes[k] : k \in {q \in DOMAIN nodes : q[1] = level}} \cup {storeZeroHashes[(height - level) + 1]}

\* siblings arrays of the tree's height, bottom-up, each entry a node value of its level
TreeSiblingInputs ==
  {s \in [1..height -> UNION {LevelNodes(level) : level \in 1..height}] :
     \A i \in 1..height : s[i] \in LevelNodes(height - i + 1)}

\* ---------------------------------------------------------------- initial state
\* new ZeroMerkleTree(height), new AppendOnlyMerkleTree(height), nothing verified yet
Init ==
  /\ height \in 0..MaxHeight
  /\ storeZeroHashes = computeZeroHashes(height)
  /\ nodes = <<>>
  /\ zcalls = <<>>
  /\ zproofs = <<>>
  /\ zeroHashes = computeZeroHashes(height)
  /\ lastProof = [root |-> computeZeroHashes(height)[height + 1],
                  siblings |-> SubSeq(computeZeroHashes(height), 1, height),
                  index |-> -1,
                  value |-> computeZeroHashes(height)[height + 1]]
  /\ aproofs = <<>>
  /\ verified = NoCall
  /\ arrays = <<SubSeq(computeZeroHashes(height), 1, height)>>
  /\ lastSiblings = 1
  /\ zarrays = <<>>
  /\ zproofSiblings = <<>>
  /\ aproofSiblings = <<>>

\* ---------------------------------------------------------------- actions
\* tree.setLeaf(index, value)
SetLeaf(index, value) ==
  /\ nodes' = setLeaf(nodes, index, value).store
  /\ zcalls' = Append(zcalls, <<index, value>>)
  /\ zproofs' = Append(zproofs, setLeaf(nodes, index, value).proof)
  /\ zarrays' = Append(zarrays, setLeaf(nodes, index, value).proof.siblings)
  /\ zproofSiblings' = Append(zproofSiblings, Len(zarrays) + 1)
  /\ UNCHANGED <<height, storeZeroHashes, appendVars, verified, arrays, lastSiblings, aproofSiblings>>

\* a caller that keeps to the contract: index in [0, 2^height)
SetLeafValid ==
  /\ Len(zproofs) < MaxCalls
  /\ \E index \in ValidIndex, value \in Values : SetLeaf(index, value)

\* a caller that breaks the contract: index outside [0, 2^height)
SetLeafOutOfRange ==
  /\ Len(zproofs) < MaxCalls
  /\ \E index \in AnyIndex \ ValidIndex, value \in Values : SetLeaf(index, value)

\* tree.appendLeaf(leafValue)
AppendLeaf(leafValue) ==
  /\ Len(aproofs) < MaxAppends
  /\ lastProof' = appendLeaf(lastProof, leafValue).lastProof
  /\ aproofs' = Append(aproofs, appendLeaf(lastProof, leafValue).proof)
  /\ arrays' = siblingsArray(arrays, lastSiblings, appendLeaf(lastProof, leafValue).proof.siblings).arrays
  /\ lastSiblings' = siblingsArray(arrays, lastSiblings, appendLeaf(lastProof, leafValue).proof.siblings).ref
  /\ aproofSiblings' = Append(aproofSiblings, lastSiblings')
  /\ UNCHANGED <<height, zeroHashes, zeroVars, verified, zarrays, zproofSiblings>>

AppendLeafAny == \E leafValue \in Values : AppendLeaf(leafValue)

\* verifyMerkleProof(proof)
VerifyMerkleProof(proof) ==
  /\ verified' = [kind |-> "merkle", proof |-> proof, result |-> verifyMerkleProof(proof)]
  /\ UNCHANGED <<height, zeroVars, appendVars, heapVars>>

\* a verifier is handed one proof whose root is the fold of its other fields, or
\* the root of the empty tree
VerifyMerkleProofAny ==
  /\ verified = NoCall
  /\ \E siblings \in SiblingInputs, index \in AnyIndex, value \in NodeInputs :
       \E root \in {computeMerkleRootFromProof(siblings, index, value), storeZeroHashes[height + 1]} :
         VerifyMerkleProof([root |-> root, siblings |-> siblings, index |-> index, value |-> value])

\* verifyDeltaMerkleProof(deltaMerkleProof)
VerifyDeltaMerkleProof(deltaMerkleProof) ==
  /\ verified' = [kind |-> "delta", proof |-> deltaMerkleProof,
                  result |-> verifyDeltaMerkleProof(deltaMerkleProof)]
  /\ UNCHANGED <<height, zeroVars, appendVars, heapVars>>

VerifyDeltaMerkleProofAny ==
  /\ verified = NoCall
  /\ \E siblings \in SiblingInputs, index \in AnyIndex, oldValue \in NodeInputs, newValue \in NodeInputs :
       \E oldRoot \in {computeMerkleRootFromProof(siblings, index, oldValue), storeZeroHashes[height + 1]},
          newRoot \in {computeMerkleRootFromProof(siblings, index, newValue), storeZeroHashes[height + 1]} :
         VerifyDeltaMerkleProof([index |-> index, siblings |-> siblings,
                                 oldRoot |-> oldRoot, oldValue |-> oldValue,
                                 newRoot |-> newRoot, newValue |-> newValue])

\* a verifier that holds the sparse tree's current root is handed a delta proof
\* of the tree's height for an index in range, built from node values of the tree
VerifyDeltaMerkleProofOnTree ==
  /\ verified = NoCall
  /\ \E siblings \in TreeSiblingInputs, index \in ValidIndex, oldValue \in Values, newValue \in Values :
       VerifyDeltaMerkleProof([index |-> index, siblings |-> siblings,
                               oldRoot |-> getRoot(nodes), oldValue |-> oldValue,
                               newRoot |-> computeMerkleRootFromProof(siblings, index, newValue),
                               newValue |-> newValue])

\* the sparse tree filled in index order with the values the append-only tree
\* received: setLeaf(i, v_i) for i = 0, 1, ... as long as v_i was appended
SetLeafSame ==
  /\ Len(zproofs) < Len(aproofs)
  /\ Len(zproofs) \in ValidIndex
  /\ SetLeaf(Len(zproofs), aproofs[Len(zproofs) + 1].newValue)

\* the sparse tree used within its contract
NextZero == SetLeafValid

SpecZero == Init /\ [][NextZero]_vars

\* the sparse tree with any caller
NextZeroAny == SetLeafValid \/ SetLeafOutOfRange

SpecZeroAny == Init /\ [][NextZeroAny]_vars

\* the append-only tree
NextAppend == AppendLeafAny

SpecAppend == Init /\ [][NextAppend]_vars

\* the two trees fed the same leaves in the same order
NextSameLeaves == AppendLeafAny \/ SetLeafSame

SpecSameLeaves == Init /\ [][NextSameLeaves]_vars

\* the verifiers on proofs from any source
NextVerify == VerifyMerkleProofAny \/ VerifyDeltaMerkleProofAny

SpecVerify == Init /\ [][NextVerify]_vars

\* the sparse tree with any caller, and a verifier of delta proofs against its root
NextZeroVerify == SetLeafValid \/ SetLeafOutOfRange \/ VerifyDeltaMerkleProofOnTree

SpecZeroVerify == Init /\ [][NextZeroVerify]_vars

\* the sparse tree used within its contract, and a verifier of delta proofs against its root
NextZeroValidVerify == SetLeafValid \/ VerifyDeltaMerkleProofOnTree

SpecZeroValidVerify == Init /\ [][NextZeroValidVerify]_vars

\* both trees with any caller
Next ==
  \/ SetLeafValid \/ SetLeafOutOfRange \/ SetLeafSame \/ AppendLeafAny
  \/ VerifyMerkleProofAny \/ VerifyDeltaMerkleProofAny \/ VerifyDeltaMerkleProofOnTree

Spec == Init /\ [][Next]_vars

\* ---------------------------------------------------------------- ZeroMerkleTree: delta proofs
\* C1: every delta proof returned by setLeaf with an index in [0, 2^height)
\* on a fresh ZeroMerkleTree verifies: the old fold of oldValue and the new
\* fold of newValue over the shared siblings give oldRoot and newRoot.
C1_SetLeafProofsVerify ==
  \A i \in 1..Len(zproofs) : verifyDeltaMerkleProof(zproofs[i])

\* a leaf that already held a non-zero value was overwritten with another value
C1_Witness ==
  /\ height >= 1
  /\ Len(zproofs) >= 2
  /\ zproofs[Len(zproofs)].oldValue # ZeroDigest
  /\ zproofs[Len(zproofs)].oldValue # zproofs[Len(zproofs)].newValue
  /\ verifyDeltaMerkleProof(zproofs[Len(zproofs)])

\* C4: the roots of successive setLeaf proofs chain: each proof's oldRoot is
\* the previous proof's newRoot, and the first proof's oldRoot is the
\* empty-tree root Z[height].
C4_SetLeafRootsChain ==
  /\ Len(zproofs) >= 1 => zproofs[1].oldRoot = storeZeroHashes[height + 1]
  /\ \A i \in 2..Len(zproofs) : zproofs[i].oldRoot = zproofs[i - 1].newRoot

\* three proofs were returned and the root moved at every call
C4_Witness ==
  /\ height >= 1
  /\ Len(zproofs) >= 3
  /\ \A i \in 1..Len(zproofs) : zproofs[i].oldRoot # zproofs[i].newRoot
  /\ zproofs[3].oldRoot = zproofs[2].newRoot

\* C8: setLeaf with an index outside [0, 2^height) returns no delta proof and
\* leaves the value of getRoot() as it was.
C8_OutOfRangeSetLeafFailsLoudly ==
  [][\A index \in AnyIndex \ ValidIndex, value \in Values :
       SetLeaf(index, value) => (zproofs' = zproofs /\ getRoot(nodes') = getRoot(nodes))]_vars

\* ---------------------------------------------------------------- AppendOnlyMerkleTree: delta proofs
\* C2: every delta proof returned by appendLeaf on a fresh
\* AppendOnlyMerkleTree verifies, whatever the number of appends.
C2_AppendProofsVerify ==
  \A i \in 1..Len(aproofs) : verifyDeltaMerkleProof(aproofs[i])

\* C5: the roots of successive appendLeaf proofs chain: each proof's oldRoot
\* is the previous proof's newRoot, and the first proof's oldRoot is Z[height].
C5_AppendRootsChain ==
  /\ Len(aproofs) >= 1 => aproofs[1].oldRoot = zeroHashes[height + 1]
  /\ \A i \in 2..Len(aproofs) : aproofs[i].oldRoot = aproofs[i - 1].newRoot

\* three leaves were appended and the root moved at every append
C5_Witness ==
  /\ height >= 2
  /\ Len(aproofs) >= 3
  /\ \A i \in 1..Len(aproofs) : aproofs[i].oldRoot # aproofs[i].newRoot
  /\ aproofs[3].oldRoot = aproofs[2].newRoot

\* C9: once 2^height leaves are appended, a further appendLeaf returns no
\* delta proof and leaves lastProof (root, siblings, index, value) unchanged.
C9_OverflowAppendFailsLoudly ==
  [][lastProof.index >= 2^height - 1 => (aproofs' = aproofs /\ lastProof' = lastProof)]_vars

\* ---------------------------------------------------------------- the two trees compared
\* C3: the newRoot returned by the last of 2^height appendLeaf(v_i) calls on a
\* fresh AppendOnlyMerkleTree equals getRoot() of a fresh ZeroMerkleTree after
\* setLeaf(i, v_i) for i = 0 .. 2^height - 1 in order.
C3_FullAppendRootIsSparseRoot ==
  ( /\ Len(aproofs) >= 2^height
    /\ Len(zproofs) = 2^height
    /\ \A i \in 1..(2^height) : /\ zproofs[i].index = i - 1
                                /\ zproofs[i].newValue = aproofs[i].newValue )
  => aproofs[2^height].newRoot = getRoot(nodes)

\* a tree of height 2 was filled by both disciplines with leaves that are not all equal
C3_Witness ==
  /\ height >= 2
  /\ Len(aproofs) >= 2^height
  /\ Len(zproofs) = 2^height
  /\ \A i \in 1..(2^height) : zproofs[i].newValue = aproofs[i].newValue
  /\ zproofs[1].newValue # ZeroDigest
  /\ zproofs[3].newValue # ZeroDigest
  /\ zproofs[4].newValue = ZeroDigest
  /\ aproofs[2^height].newRoot = getRoot(nodes)

\* ---------------------------------------------------------------- verifiers
\* the proof with one sibling replaced by a different node
SiblingTamperings(proof) ==
  {[proof EXCEPT !.siblings[k] = n] : k \in 1..Len(proof.siblings), n \in NodeInputs} \ {proof}

\* the proof with the value replaced by a different node
ValueTamperings(proof) ==
  {[proof EXCEPT !.value = v] : v \in NodeInputs \ {proof.value}}

\* the proof with the index replaced by a different index
IndexTamperings(proof) ==
  {[proof EXCEPT !.index = j] : j \in AnyIndex \ {proof.index}}

\* index j puts the path node on the other side of its sibling on some level
\* of the proof where the path node and the sibling are different nodes
SideChanges(proof, j) ==
  LET merklePath == computeMerklePathFromProof(proof.siblings, proof.index, proof.value)
  IN  \E k \in 1..Len(proof.siblings) :
        /\ (proof.index \div (2^(k - 1))) % 2 # (j \div (2^(k - 1))) % 2
        /\ merklePath[k] # proof.siblings[k]

\* C6 as stated: an accepted proof with one sibling, the index or the value
\* replaced by a different one is rejected by verifyMerkleProof.
C6_AnyTamperingRejected ==
  (verified.kind = "merkle" /\ verified.result)
  => \A t \in SiblingTamperings(verified.proof) \cup ValueTamperings(verified.proof)
               \cup IndexTamperings(verified.proof) :
       ~verifyMerkleProof(t)

\* C6 as amended: an accepted proof with one sibling or the value replaced by
\* a different node is rejected; with the index replaced it is rejected exactly
\* when the new index changes the side of the path node on a level of the proof
\* where the path node differs from its sibling.
C6_TamperingRejected ==
  (verified.kind = "merkle" /\ verified.result)
  => /\ \A t \in SiblingTamperings(verified.proof) \cup ValueTamperings(verified.proof) :
          ~verifyMerkleProof(t)
     /\ \A t \in IndexTamperings(verified.proof) :
          ~verifyMerkleProof(t) <=> SideChanges(verified.proof, t.index)

\* an accepted proof with two siblings that has a rejected sibling tampering, a
\* rejected index tampering and an index tampering that is still accepted
C6_Witness ==
  /\ verified.kind = "merkle"
  /\ verified.result
  /\ Len(verified.proof.siblings) >= 2
  /\ verified.proof.value # verified.proof.siblings[1]
  /\ \E t \in SiblingTamperings(verified.proof) : ~verifyMerkleProof(t)
  /\ \E t \in IndexTamperings(verified.proof) : ~verifyMerkleProof(t)
  /\ \E t \in IndexTamperings(verified.proof) : verifyMerkleProof(t)

\* C10: a proof whose siblings array is not of the tree's height is never
\* reported valid by verifyMerkleProof or verifyDeltaMerkleProof.
C10_WrongLengthProofRejected ==
  (verified.kind # "none" /\ Len(verified.proof.siblings) # height) => ~verified.result

\* C7: an accepted delta proof of the tree's height, for an index in range,
\* whose oldRoot is the sparse tree's root has the tree's leaf at that index as
\* oldValue and the root after setLeaf(index, newValue) as newRoot.
C7_AcceptedDeltaBindsLeaf ==
  ( /\ verified.kind = "delta"
    /\ verified.result
    /\ Len(verified.proof.siblings) = height
    /\ verified.proof.index \in ValidIndex
    /\ verified.proof.oldRoot = getRoot(nodes) )
  => /\ verified.proof.oldValue = get(nodes, height, verified.proof.index)
     /\ verified.proof.newRoot =
          getRoot(setLeaf(nodes, verified.proof.index, verified.proof.newValue).store)

\* ---------------------------------------------------------------- ZeroMerkleTree: repeated writes
\* the step is a setLeaf call that repeats the call before it: same index, in
\* [0, 2^height), and same value
RepeatsLastSetLeaf ==
  /\ Len(zcalls) >= 1
  /\ Len(zcalls') = Len(zcalls) + 1
  /\ zcalls[Len(zcalls)][1] \in ValidIndex
  /\ zcalls'[Len(zcalls')] = zcalls[Len(zcalls)]

\* C11: in any reachable state, setLeaf(i, v) called right after setLeaf(i, v)
\* returns a proof with oldRoot = newRoot and oldValue = newValue = v, and
\* getRoot() is the same after the second call as after the first.
C11_RepeatedSetLeafIsIdempotent ==
  [][RepeatsLastSetLeaf =>
       /\ zproofs'[Len(zproofs')].oldRoot = zproofs'[Len(zproofs')].newRoot
       /\ zproofs'[Len(zproofs')].oldValue = zcalls[Len(zcalls)][2]
       /\ zproofs'[Len(zproofs')].newValue = zcalls[Len(zcalls)][2]
       /\ getRoot(nodes') = getRoot(nodes)]_vars

\* after another leaf was set, a non-zero value was written twice in a row to
\* one leaf of a tree with siblings
C11_Witness ==
  /\ height >= 1
  /\ Len(zproofs) >= 3
  /\ zproofs[Len(zproofs)].index \in ValidIndex
  /\ zproofs[Len(zproofs)].index = zproofs[Len(zproofs) - 1].index
  /\ zproofs[Len(zproofs)].newValue = zproofs[Len(zproofs) - 1].newValue
  /\ zproofs[Len(zproofs)].newValue # ZeroDigest
  /\ zproofs[1].index # zproofs[Len(zproofs)].index
  /\ zproofs[1].newValue # ZeroDigest
  /\ zproofs[Len(zproofs)].oldRoot = zproofs[Len(zproofs)].newRoot

\* ---------------------------------------------------------------- zero hashes
\* a zero-hash table of a tree of the given height: height + 1 entries, the
\* first the all-zero digest, each next one the hash of the one before with itself
IsZeroHashTable(Z) ==
  /\ Len(Z) = height + 1
  /\ Z[1] = ZeroDigest
  /\ \A i \in 2..Len(Z) : Z[i] = hash(Z[i - 1], Z[i - 1])

\* C12: computeZeroHashes(h) returns h + 1 entries with Z[0] the all-zero
\* digest and Z[i] = hash(Z[i-1], Z[i-1]); getRoot() of a fresh ZeroMerkleTree
\* and lastProof.root of a fresh AppendOnlyMerkleTree both equal Z[h].
C12_ZeroHashesAndFreshRoots ==
  /\ IsZeroHashTable(computeZeroHashes(height))
  /\ IsZeroHashTable(storeZeroHashes)
  /\ IsZeroHashTable(zeroHashes)
  /\ nodes = <<>> => getRoot(nodes) = computeZeroHashes(height)[height + 1]
  /\ aproofs = <<>> => lastProof.root = computeZeroHashes(height)[height + 1]

\* two fresh trees of height 2 or more: Z[2] = hash(hash(Z0, Z0), hash(Z0, Z0))
C12_Witness ==
  /\ height >= 2
  /\ nodes = <<>>
  /\ aproofs = <<>>
  /\ computeZeroHashes(height)[3] =
       hash(hash(ZeroDigest, ZeroDigest), hash(ZeroDigest, ZeroDigest))
  /\ getRoot(nodes) = lastProof.root

\* ---------------------------------------------------------------- AppendOnlyMerkleTree: indices
\* C13: append indices are strictly sequential: a fresh tree has
\* lastProof.index = -1, the k-th appendLeaf returns a proof with index k - 1
\* and leaves lastProof = {root: newRoot, siblings: the proof's siblings,
\* index: k - 1, value: the appended value}; no index is skipped or repeated.
C13_AppendIndicesSequential ==
  /\ aproofs = <<>> => lastProof.index = -1
  /\ \A k \in 1..Len(aproofs) : aproofs[k].index = k - 1
  /\ Len(aproofs) >= 1 =>
       lastProof = [root |-> aproofs[Len(aproofs)].newRoot,
                    siblings |-> aproofs[Len(aproofs)].siblings,
                    index |-> Len(aproofs) - 1,
                    value |-> aproofs[Len(aproofs)].newValue]

\* three leaves were appended to a tree of height 2 or more, the last one non-zero
C13_Witness ==
  /\ height >= 2
  /\ Len(aproofs) = 3
  /\ aproofs[3].index = 2
  /\ aproofs[3].newValue # ZeroDigest
  /\ lastProof.index = 2
  /\ lastProof.value = aproofs[3].newValue

\* ---------------------------------------------------------------- NodeStore: keys
\* C14: the set of (level, index) keys present in the node store only grows:
\* no operation removes an entry.
C14_StoreKeysOnlyGrow ==
  [][DOMAIN nodes \subseteq DOMAIN nodes']_vars

\* after three setLeaf calls the store holds more entries than one call writes
C14_Witness ==
  /\ height >= 1
  /\ Len(zproofs) >= 3
  /\ Cardinality(DOMAIN nodes) > height + 1
  /\ \A level \in 1..height : \E k \in DOMAIN nodes : k[1] = level
  /\ zproofs[Len(zproofs)].oldValue # ZeroDigest

\* ---------------------------------------------------------------- returned proofs
\* a returned proof as its holder reads it now: its siblings are the current
\* contents of the array object the proof refers to
CurrentProof(proof, heap, ref) == [proof EXCEPT !.siblings = heap[ref]]

\* C15: a returned delta proof is an immutable snapshot: no later setLeaf or
\* appendLeaf call changes any of its fields, the siblings array that
\* appendLeaf also keeps as lastProof.siblings included, and a proof that
\* verified when it was returned still verifies.
C15_ReturnedProofsImmutable ==
  /\ \A k \in 1..Len(aproofs) :
       /\ CurrentProof(aproofs[k], arrays, aproofSiblings[k]) = aproofs[k]
       /\ verifyDeltaMerkleProof(aproofs[k]) =>
            verifyDeltaMerkleProof(CurrentProof(aproofs[k], arrays, aproofSiblings[k]))
  /\ \A k \in 1..Len(zproofs) :
       /\ CurrentProof(zproofs[k], zarrays, zproofSiblings[k]) = zproofs[k]
       /\ verifyDeltaMerkleProof(zproofs[k]) =>
            verifyDeltaMerkleProof(CurrentProof(zproofs[k], zarrays, zproofSiblings[k]))

\* the tree's lastProof.siblings is the array of the last returned proof, and
\* the first proof's array differs from it although later calls of both trees
\* ran after the first proof was returned
C15_Witness ==
  /\ height >= 1
  /\ Len(aproofs) >= 2
  /\ Len(zproofs) >= 2
  /\ lastSiblings = aproofSiblings[Len(aproofs)]
  /\ aproofs[1].siblings # aproofs[Len(aproofs)].siblings
  /\ arrays[aproofSiblings[1]] = aproofs[1].siblings
  /\ verifyDeltaMerkleProof(CurrentProof(aproofs[1], arrays, aproofSiblings[1]))
  /\ zarrays[zproofSiblings[1]] = zproofs[1].siblings

\* ---------------------------------------------------------------- sibling reuse
\* C16: for 1 <= k <= 2^height the proof of the k-th appendLeaf(v) on a fresh
\* append tree equals, field by field, the proof of setLeaf(k - 1, v) on a
\* ZeroMerkleTree of the same height that received the same first k - 1
\* values at the indices 0..k-2.
C16_AppendProofIsSetLeafProof ==
  \A k \in 1..Len(zproofs) :
    k <= Len(aproofs) /\ k <= 2^height =>
      /\ aproofs[k].index = zproofs[k].index
      /\ aproofs[k].siblings = zproofs[k].siblings
      /\ aproofs[k].oldRoot = zproofs[k].oldRoot
      /\ aproofs[k].oldValue = zproofs[k].oldValue
      /\ aproofs[k].newRoot = zproofs[k].newRoot
      /\ aproofs[k].newValue = zproofs[k].newValue

\* the third leaf of a tree of height 2 or more: its proof takes one zero hash
\* and one node of the previous path, after two non-zero leaves
C16_Witness ==
  /\ height >= 2
  /\ Len(zproofs) >= 3
  /\ Len(aproofs) >= 3
  /\ aproofs[1].newValue # ZeroDigest
  /\ aproofs[2].newValue # ZeroDigest
  /\ aproofs[3].siblings[1] = ZeroDigest
  /\ aproofs[3].siblings[2] = hash(aproofs[1].newValue, aproofs[2].newValue)
  /\ aproofs[3] = zproofs[3]

\* ---------------------------------------------------------------- ZeroMerkleTree: reference root
\* the current leaf assignment: the value most recently passed to setLeaf for
\* the index, or the all-zero digest if the index was never set
LeafAssignment(index) ==
  LET calls == {k \in 1..Len(zcalls) : zcalls[k][1] = index}
  IN  IF calls = {}
      THEN ZeroDigest
      ELSE zcalls[CHOOSE k \in calls : \A j \in calls : j <= k][2]

\* the reference Merkle tree over the leaf assignment, computed top-down
RECURSIVE ReferenceNode(_, _)
ReferenceNode(level, index) ==
  IF level = height
  THEN LeafAssignment(index)
  ELSE hash(ReferenceNode(level + 1, 2 * index), ReferenceNode(level + 1, 2 * index + 1))

\* C17: after any sequence of setLeaf calls with valid indices, getRoot() is
\* the reference Merkle root computed recursively over the current leaf
\* assignment, and every internal node satisfies
\* get(level, i) = hash(get(level+1, 2i), get(level+1, 2i+1)); so the root
\* depends only on the final leaf contents.
C17_RootIsReferenceRoot ==
  /\ getRoot(nodes) = ReferenceNode(0, 0)
  /\ \A index \in ValidIndex : get(nodes, height, index) = LeafAssignment(index)
  /\ \A level \in 0..(height - 1) : \A i \in 0..(2^level - 1) :
       get(nodes, level, i) =
         hash(get(nodes, level + 1, 2 * i), get(nodes, level + 1, 2 * i + 1))

\* a tree of height 2 or more where a non-zero leaf was overwritten by another
\* value while a leaf of the other half holds a non-zero value
C17_Witness ==
  /\ height >= 2
  /\ Len(zproofs) >= 3
  /\ \E k \in 1..Len(zproofs) : \E j \in ValidIndex :
       /\ zproofs[k].oldValue # ZeroDigest
       /\ zproofs[k].newValue # zproofs[k].oldValue
       /\ (zproofs[k].index < 2^(height - 1)) # (j < 2^(height - 1))
       /\ LeafAssignment(j) # ZeroDigest
  /\ getRoot(nodes) = ReferenceNode(0, 0)

\* ---------------------------------------------------------------- ZeroMerkleTree: frame of setLeaf
\* the index of the leaf's path node on a level: floor(index / 2^(height - level))
PathIndex(index, level) == index \div 2^(height - level)

\* the store keys on the path from the leaf to the root
PathKeys(index) == {Key(level, PathIndex(index, level)) : level \in 0..height}

\* the index of the path node's sibling on a level
SiblingIndex(index, level) ==
  IF PathIndex(index, level) % 2 = 0
  THEN PathIndex(index, level) + 1
  ELSE PathIndex(index, level) - 1

\* C18: setLeaf(index, value) with a valid index writes exactly the
\* height + 1 store entries on the path (level L, floor(index / 2^(height-L)))
\* for L = height..0 and nothing else: get(level, i) is unchanged for every
\* coordinate off the path, and every sibling in the returned proof is read
\* from a coordinate off the path.
C18_SetLeafWritesOnlyThePath ==
  [][(Len(zcalls') = Len(zcalls) + 1 /\ zcalls'[Len(zcalls')][1] \in ValidIndex) =>
       LET index == zcalls'[Len(zcalls')][1]
           siblings == zproofs'[Len(zproofs')].siblings
       IN  /\ Cardinality(PathKeys(index)) = height + 1
           /\ DOMAIN nodes' = DOMAIN nodes \cup PathKeys(index)
           /\ \A k \in DOMAIN nodes : k \notin PathKeys(index) => nodes'[k] = nodes[k]
           /\ \A level \in 0..height : \A i \in 0..(2^level - 1) :
                i # PathIndex(index, level) => get(nodes', level, i) = get(nodes, level, i)
           /\ nodes'[Key(height, index)] = zcalls'[Len(zcalls')][2]
           /\ \A n \in 1..height :
                /\ Key(height - n + 1, SiblingIndex(index, height - n + 1)) \notin PathKeys(index)
                /\ siblings[n] = get(nodes, height - n + 1, SiblingIndex(index, height - n + 1))
                /\ siblings[n] = get(nodes', height - n + 1, SiblingIndex(index, height - n + 1))]_vars

\* a call on a tree of height 2 or more whose store already held entries off
\* the call's path, one of them a sibling the proof carries
C18_Witness ==
  /\ height >= 2
  /\ Len(zproofs) >= 2
  /\ zproofs[Len(zproofs)].index \in ValidIndex
  /\ Cardinality(DOMAIN nodes \ PathKeys(zproofs[Len(zproofs)].index)) >= 2
  /\ \E n \in 1..height :
       /\ contains(nodes, height - n + 1, SiblingIndex(zproofs[Len(zproofs)].index, height - n + 1))
       /\ zproofs[Len(zproofs)].siblings[n] # storeZeroHashes[n]

\* ---------------------------------------------------------------- proof sizes
\* C19: every delta proof returned by setLeaf or appendLeaf carries exactly
\* height siblings, and in every reachable state of the append tree
\* lastProof.siblings has length height and zeroHashes has length height + 1.
C19_ProofsHaveHeightSiblings ==
  /\ \A k \in 1..Len(zproofs) : Len(zproofs[k].siblings) = height
  /\ \A k \in 1..Len(aproofs) : Len(aproofs[k].siblings) = height
  /\ Len(lastProof.siblings) = height
  /\ Len(arrays[lastSiblings]) = height
  /\ Len(zeroHashes) = height + 1

\* both trees of height 2 or more returned several proofs
C19_Witness ==
  /\ height >= 2
  /\ Len(aproofs) >= 3
  /\ Len(zproofs) >= 2
  /\ lastProof.index = Len(aproofs) - 1
  /\ Len(aproofs[Len(aproofs)].siblings) = height
  /\ Len(zproofs[Len(zproofs)].siblings) = height

\* ---------------------------------------------------------------- ZeroMerkleTree: proof fields
\* C20: for every valid setLeaf(index, value) the returned proof has
\* oldRoot = getRoot() before the call, oldValue = the value most recently set
\* at that index (Z[0] if never set), newValue = value, index = the index
\* argument, and newRoot = getRoot() after the call.
C20_SetLeafProofFields ==
  [][(Len(zcalls') = Len(zcalls) + 1 /\ zcalls'[Len(zcalls')][1] \in ValidIndex) =>
       LET index == zcalls'[Len(zcalls')][1]
           value == zcalls'[Len(zcalls')][2]
       IN  /\ Len(zproofs') = Len(zcalls')
           /\ zproofs'[Len(zproofs')].oldRoot = getRoot(nodes)
           /\ zproofs'[Len(zproofs')].oldValue = LeafAssignment(index)
           /\ zproofs'[Len(zproofs')].newValue = value
           /\ zproofs'[Len(zproofs')].index = index
           /\ zproofs'[Len(zproofs')].newRoot = getRoot(nodes')]_vars

\* the last call overwrote a leaf that was set to a non-zero value two calls
\* earlier, with another leaf set in between
C20_Witness ==
  /\ height >= 1
  /\ Len(zproofs) = 3
  /\ zproofs[3].index = zproofs[1].index
  /\ zproofs[2].index # zproofs[1].index
  /\ zproofs[1].newValue # ZeroDigest
  /\ zproofs[3].oldValue = zproofs[1].newValue
  /\ zproofs[3].newValue # zproofs[3].oldValue
  /\ zproofs[3].oldRoot = zproofs[2].newRoot
  /\ zproofs[3].newRoot = getRoot(nodes)

====
